---- MODULE Spec2Model ----
(***************************************************************************)
(* Model of the two IPv4 enumeration tools of sdc-napi:                    *)
(*   tools/data/ip_iter.c  walks an inclusive range of addresses           *)
(*   tools/data/ip_sub.c   enumerates successive subnets of a prefix size  *)
(*                                                                         *)
(* A 32-bit word is kept as two 16-bit halves [hi, lo] so that arithmetic  *)
(* modulo 2^32 is computed exactly.  A dotted-decimal text "a.b.c.d" is    *)
(* the sequence of its decimal fields <<a, b, c, d>>; a struct in_addr is  *)
(* the sequence of its four bytes in network order.                        *)
(***************************************************************************)
EXTENDS Integers, Sequences, FiniteSets, TLC

VARIABLES prog, argc, argv, pc, status, err, out,
          first, cur, last,
          bits, count, i, subnet, shifts

vars == <<prog, argc, argv, pc, status, err, out,
          first, cur, last, bits, count, i, subnet, shifts>>

(* ------------------------------ bounds --------------------------------- *)

\* longest range (end - start) given to ip_iter
MaxSpan == 3
\* lines after which a run of ip_iter that has not stopped is cut off
MaxLines == 6
\* ordinary counts given to ip_sub are -1..MaxCount
MaxCount == 3
\* one long count, enough to carry a /8 enumeration across half the space
BigCount == 131

(* ------------------------- 32-bit words -------------------------------- *)

Half == 2 ^ 16

INET_ADDRSTRLEN == 16
INET6_ADDRSTRLEN == 46

U32(h, l) == [hi |-> h, lo |-> l]

Zero32 == U32(0, 0)
Max32 == U32(Half - 1, Half - 1)

\* unsigned comparison of two words (first > last, cur <= last)
LeqU32(a, b) == a.hi < b.hi \/ (a.hi = b.hi /\ a.lo <= b.lo)
\* the comparison written the wrong way round
GtU32_reversed(a, b) == ~LeqU32(b, a)
GtU32(a, b) == ~LeqU32(a, b)

\* a + n modulo 2^32, for 0 <= n < 2^31
AddU32(a, n) ==
    LET l == a.lo + (n % Half)
        h == a.hi + (n \div Half) + (l \div Half)
    IN  U32(h % Half, l % Half)

RECURSIVE BitAnd(_, _)
\* bitwise AND of two naturals
BitAnd(a, b) ==
    IF a = 0 \/ b = 0 THEN 0
    ELSE (a % 2) * (b % 2) + 2 * BitAnd(a \div 2, b \div 2)

\* a & n for a 32-bit word a and an int 0 <= n < 2^31
AndU32(a, n) == U32(BitAnd(a.hi, n \div Half), BitAnd(a.lo, n % Half))

\* a shift one place short
Shl1_short(s) == 2 ^ (s - 1)
\* 1 << s as an int
Shl1(s) == 2 ^ s

(* ---------------------- signed int arithmetic -------------------------- *)

\* the sign bit of an int held as its two's complement bit pattern
IsNeg(a) == a.hi >= Half \div 2

\* the run is aborted by an overflow trap
TRAP == [hi |-> -1, lo |-> -1]

\* a + n on int, n > 0: defined when the sum is representable; on overflow
\* the behaviour is undefined, and the build either wraps or traps
SignedAdd(a, n) ==
    IF ~IsNeg(a) /\ IsNeg(AddU32(a, n))
    THEN {AddU32(a, n), TRAP}
    ELSE {AddU32(a, n)}

(* ----------------------- text and byte order --------------------------- *)

NULL == <<>>

\* inet_pton(AF_INET, text, &addr): 1 and the four bytes, or 0
inet_pton(text) ==
    IF Len(text) = 4 /\ \A k \in 1..4 : text[k] \in 0..255
    THEN [ret |-> 1, s_addr |-> text]
    ELSE [ret |-> 0, s_addr |-> <<0, 0, 0, 0>>]

\* ntohl: the host-order value of four network-order bytes
ntohl(b) == U32(b[1] * 256 + b[2], b[3] * 256 + b[4])

\* htonl: the four network-order bytes of a host-order value
htonl(v) == <<v.hi \div 256, v.hi % 256, v.lo \div 256, v.lo % 256>>

Digits(n) == IF n < 10 THEN 1 ELSE IF n < 100 THEN 2 ELSE 3

\* inet_ntop(AF_INET, &addr, buf, size): the text, or NULL when the buffer
\* cannot hold it with its terminator
inet_ntop(b, size) ==
    IF Digits(b[1]) + Digits(b[2]) + Digits(b[3]) + Digits(b[4]) + 3 + 1 > size
    THEN NULL
    ELSE b

\* the text of an integer argument: a sign and its decimal digits; text
\* that does not start with a numeral has no digits
Numeral(neg, ds) == [neg |-> neg, digits |-> ds]

RECURSIVE DigitsValue(_)
DigitsValue(ds) ==
    IF ds = <<>> THEN 0
    ELSE 10 * DigitsValue(SubSeq(ds, 1, Len(ds) - 1)) + ds[Len(ds)]

\* atoi: the value of the leading numeral, 0 when there is none
atoi(s) == IF s.neg THEN 0 - DigitsValue(s.digits) ELSE DigitsValue(s.digits)

(* ------------------------------ inputs --------------------------------- *)

BadTexts == { <<256, 0, 0, 1>>, <<10, 0, 0>> }

IterTexts ==
    { <<0, 0, 0, 0>>, <<0, 0, 0, 1>>, <<10, 0, 0, 3>>, <<10, 0, 0, 5>>,
      <<10, 0, 0, 255>>, <<10, 0, 1, 1>>, <<127, 255, 255, 255>>,
      <<128, 0, 0, 0>>, <<255, 255, 255, 254>>, <<255, 255, 255, 255>> }
    \cup BadTexts

\* a well-formed dotted-decimal text: four fields, each 0..255
ValidText(t) == Len(t) = 4 /\ \A k \in 1..4 : t[k] \in 0..255

\* a.b.c.d names a smaller address than e.f.g.h
TextLess(a, b) ==
    \E k \in 1..4 : a[k] < b[k] /\ \A j \in 1..(k - 1) : a[j] = b[j]

\* the address after a.b.c.d; none after 255.255.255.255
TextSucc(t) ==
    IF t[4] < 255 THEN <<t[1], t[2], t[3], t[4] + 1>>
    ELSE IF t[3] < 255 THEN <<t[1], t[2], t[3] + 1, 0>>
    ELSE IF t[2] < 255 THEN <<t[1], t[2] + 1, 0, 0>>
    ELSE IF t[1] < 255 THEN <<t[1] + 1, 0, 0, 0>>
    ELSE <<>>

RECURSIVE Within(_, _, _)
\* b is reached from a in at most n successor steps
Within(a, b, n) ==
    \/ a = b
    \/ n > 0 /\ a # <<>> /\ TextSucc(a) # <<>> /\ Within(TextSucc(a), b, n - 1)

\* the argument pairs given to ip_iter: malformed ones, descending ones,
\* and ascending ones of at most MaxSpan steps
IterArgs ==
    { a \in IterTexts \X IterTexts :
        \/ ~ValidText(a[1])
        \/ ~ValidText(a[2])
        \/ TextLess(a[2], a[1])
        \/ Within(a[1], a[2], MaxSpan) }

SubTexts ==
    { <<10, 0, 0, 0>>, <<10, 0, 0, 1>>, <<10, 0, 1, 0>>, <<10, 0, 0, 255>>,
      <<126, 0, 0, 0>>, <<127, 255, 254, 0>>, <<127, 255, 255, 252>>,
      <<127, 255, 255, 253>>, <<128, 0, 0, 0>>, <<254, 0, 0, 0>>,
      <<255, 255, 254, 0>>, <<255, 255, 255, 252>>, <<256, 0, 0, 1>> }

RECURSIVE DecimalDigits(_)
DecimalDigits(n) ==
    IF n < 10 THEN <<n>> ELSE Append(DecimalDigits(n \div 10), n % 10)

\* the decimal text of an integer, as a shell user writes it
Text(n) == IF n < 0 THEN Numeral(TRUE, DecimalDigits(0 - n))
           ELSE Numeral(FALSE, DecimalDigits(n))

\* not a number at all, such as "abc"
NotANumber == Numeral(FALSE, <<>>)

BitsArgs == { Text(n) : n \in { -1, 0, 7, 8, 16, 24, 31, 32, 33 } }
            \cup {NotANumber}

CountArgs == { Text(n) : n \in (-1..MaxCount) \cup {BigCount} }

SubArgs == SubTexts \X BitsArgs \X CountArgs

(* ------------------------------ ip_iter -------------------------------- *)

Init ==
    /\ prog \in {"ip_iter", "ip_sub"}
    /\ \/ /\ prog = "ip_iter"
          /\ \/ argc = 3 /\ argv \in IterArgs
             \/ argc = 2 /\ argv \in { <<t>> : t \in {<<10, 0, 0, 3>>} }
       \/ /\ prog = "ip_sub"
          /\ \/ argc = 4 /\ argv \in SubArgs
             \/ argc = 3 /\ argv \in { <<<<10, 0, 0, 0>>, Text(24)>> }
    /\ pc = "start"
    /\ status = -1
    /\ err = "none"
    /\ out = <<>>
    /\ first = Zero32 /\ cur = Zero32 /\ last = Zero32
    /\ bits = 0 /\ count = 0 /\ i = 0 /\ subnet = Zero32
    /\ shifts = {}

Fail(kind) ==
    /\ pc' = "done"
    /\ status' = 1
    /\ err' = kind

\* ip_iter main, lines 27-49: argument count, both parses, range check
ip_iter_validate ==
    /\ prog = "ip_iter" /\ pc = "start"
    /\ IF argc # 3
       THEN Fail("usage") /\ UNCHANGED <<first, last, cur>>
       ELSE IF inet_pton(argv[1]).ret # 1
       THEN Fail("argv1") /\ UNCHANGED <<first, last, cur>>
       ELSE IF inet_pton(argv[2]).ret # 1
       THEN Fail("argv2") /\ UNCHANGED <<first, last, cur>>
       ELSE LET f == ntohl(inet_pton(argv[1]).s_addr)
                l == ntohl(inet_pton(argv[2]).s_addr)
            IN  /\ first' = f
                /\ last' = l
                /\ IF GtU32(f, l)
                   THEN Fail("range") /\ cur' = cur
                   ELSE /\ pc' = "loop"
                        /\ cur' = f
                        /\ UNCHANGED <<status, err>>
    /\ UNCHANGED <<prog, argc, argv, out, bits, count, i, subnet, shifts>>

\* ip_iter main, lines 51-61: one pass of the for loop, cur <= last
ip_iter_loop ==
    /\ prog = "ip_iter" /\ pc = "loop"
    /\ LeqU32(cur, last)
    /\ Len(out) < MaxLines
    /\ LET buf == inet_ntop(htonl(cur), INET6_ADDRSTRLEN)
       IN  IF buf = NULL
           THEN Fail("conversion") /\ UNCHANGED <<out, cur>>
           ELSE /\ out' = Append(out, <<buf>>)
                /\ cur' = AddU32(cur, 1)
                /\ UNCHANGED <<pc, status, err>>
    /\ UNCHANGED <<prog, argc, argv, first, last, bits, count, i, subnet, shifts>>

\* ip_iter main, lines 51 and 63: the loop condition fails, return (0)
ip_iter_return ==
    /\ prog = "ip_iter" /\ pc = "loop"
    /\ ~LeqU32(cur, last)
    /\ pc' = "done"
    /\ status' = 0
    /\ UNCHANGED <<prog, argc, argv, err, out, first, cur, last,
                   bits, count, i, subnet, shifts>>

(* ------------------------------- ip_sub -------------------------------- *)

\* the range check off by one at its lower end
BadBits_low(b) == b <= 8 \/ b >= 32
\* the range check off by one at its upper end
BadBits_high(b) == b < 8 \/ b > 32
\* ip_sub main, line 38: the prefix length is outside [8, 32)
BadBits(b) == b < 8 \/ b >= 32

\* the check against the whole host part instead of the boundary bit
Misaligned_mask(sn, b) == AndU32(sn, 2 * Shl1(32 - b) - 1) # Zero32
\* ip_sub main, line 45: the boundary bit of the base is set
Misaligned(sn, b) == AndU32(sn, Shl1(32 - b)) # Zero32

\* ip_sub main, lines 27-48: argument count, parse, prefix length, alignment
ip_sub_validate ==
    /\ prog = "ip_sub" /\ pc = "start"
    /\ IF argc # 4
       THEN Fail("usage") /\ UNCHANGED <<bits, count, subnet, shifts, i>>
       ELSE IF inet_pton(argv[1]).ret # 1
       THEN Fail("argv1") /\ UNCHANGED <<bits, count, subnet, shifts, i>>
       ELSE LET b == atoi(argv[2])
            IN  /\ bits' = b
                /\ IF BadBits(b)
                   THEN Fail("bits") /\ UNCHANGED <<count, subnet, shifts, i>>
                   ELSE LET sn == ntohl(inet_pton(argv[1]).s_addr)
                        IN  /\ count' = atoi(argv[3])
                            /\ subnet' = sn
                            /\ shifts' = shifts \cup {32 - b}
                            /\ IF Misaligned(sn, b)
                               THEN Fail("subnet") /\ i' = i
                               ELSE /\ pc' = "loop"
                                    /\ i' = 0
                                    /\ UNCHANGED <<status, err>>
    /\ UNCHANGED <<prog, argc, argv, out, first, cur, last>>

\* ip_sub main, lines 50-76: one pass of the for loop, i < count; the body
\* forms subnet + 1 and subnet + 2, prints the line, then the increment
\* expression runs i++, subnet += 1 << (32 - bits)
ip_sub_loop ==
    /\ prog = "ip_sub" /\ pc = "loop"
    /\ i < count
    /\ \E s1 \in SignedAdd(subnet, 1), s2 \in SignedAdd(subnet, 2),
          s3 \in SignedAdd(subnet, Shl1(32 - bits)) :
         IF s1 = TRAP \/ s2 = TRAP
         THEN /\ pc' = "done" /\ status' = 134 /\ err' = "trap"
              /\ UNCHANGED <<out, i, subnet, shifts>>
         ELSE LET buf == inet_ntop(htonl(subnet), INET_ADDRSTRLEN)
                  fst == inet_ntop(htonl(s1), INET_ADDRSTRLEN)
                  lst == inet_ntop(htonl(s2), INET_ADDRSTRLEN)
              IN  IF buf = NULL \/ fst = NULL \/ lst = NULL
                  THEN Fail("conversion") /\ UNCHANGED <<out, i, subnet, shifts>>
                  ELSE /\ out' = Append(out, <<buf, fst, lst>>)
                       /\ shifts' = shifts \cup {32 - bits}
                       /\ IF s3 = TRAP
                          THEN /\ pc' = "done" /\ status' = 134 /\ err' = "trap"
                               /\ UNCHANGED <<i, subnet>>
                          ELSE /\ i' = i + 1
                               /\ subnet' = s3
                               /\ UNCHANGED <<pc, status, err>>
    /\ UNCHANGED <<prog, argc, argv, first, cur, last, bits, count>>

\* ip_sub main, lines 50 and 78: the loop condition fails, return (0)
ip_sub_return ==
    /\ prog = "ip_sub" /\ pc = "loop"
    /\ ~(i < count)
    /\ pc' = "done"
    /\ status' = 0
    /\ UNCHANGED <<prog, argc, argv, err, out, first, cur, last,
                   bits, count, i, subnet, shifts>>

Next ==
    \/ ip_iter_validate \/ ip_iter_loop \/ ip_iter_return
    \/ ip_sub_validate \/ ip_sub_loop \/ ip_sub_return

Spec == Init /\ [][Next]_vars

(* ------------------------------ properties ----------------------------- *)

\* ip_iter was given two well-formed addresses
IterRun ==
    prog = "ip_iter" /\ argc = 3 /\ ValidText(argv[1]) /\ ValidText(argv[2])

\* ip_sub was given a well-formed base address
SubRun == prog = "ip_sub" /\ argc = 4 /\ ValidText(argv[1])

\* the bit at position s of the address a.b.c.d
BoundaryBit(t, s) ==
    IF s < 16 THEN ((t[3] * 256 + t[4]) \div (2 ^ s)) % 2
    ELSE ((t[1] * 256 + t[2]) \div (2 ^ (s - 16))) % 2

\* the halves of a.b.c.d + k * 2^s + d, the upper one not reduced
Sum(t, k, s, d) ==
    LET loInc == IF s < 16 THEN k * (2 ^ s) + d ELSE d
        hiInc == IF s < 16 THEN 0 ELSE k * (2 ^ (s - 16))
        l == t[3] * 256 + t[4] + loInc
    IN  [hi |-> t[1] * 256 + t[2] + hiInc + (l \div Half), lo |-> l % Half]

\* a.b.c.d + k * 2^s + d is beyond 255.255.255.255
Exceeds(t, k, s, d) == Sum(t, k, s, d).hi >= Half

\* the text of a.b.c.d + k * 2^s + d reduced modulo 2^32
Field(t, k, s, d) ==
    LET v == Sum(t, k, s, d)
    IN  <<(v.hi % Half) \div 256, v.hi % 256, v.lo \div 256, v.lo % 256>>

\* the k-th line (from 0) ip_sub is to print for base t and shift s
SubLine(t, k, s) == <<Field(t, k, s, 0), Field(t, k, s, 1), Field(t, k, s, 2)>>

\* ip_sub was given arguments that pass every check
SubValidated ==
    /\ SubRun
    /\ atoi(argv[2]) \in 8..31
    /\ BoundaryBit(argv[1], 32 - atoi(argv[2])) = 0

\* C1: for valid start <= end, ip_iter prints exactly start, start+1, ...,
\* end: the first line is start, each line is the successor of the one
\* before, no line is beyond end, and the run ends with status 0 right
\* after the line for end
RangeWalkExact ==
    (IterRun /\ ~TextLess(argv[2], argv[1])) =>
        /\ Len(out) >= 1 => out[1] = <<argv[1]>>
        /\ \A k \in 1..(Len(out) - 1) : out[k + 1] = <<TextSucc(out[k][1])>>
        /\ \A k \in 1..Len(out) : ~TextLess(argv[2], out[k][1])
        /\ pc = "done" =>
              status = 0 /\ Len(out) >= 1 /\ out[Len(out)] = <<argv[2]>>

\* C2: when end is 255.255.255.255 the loop counter of ip_iter never steps
\* from the maximum back to 0, so the loop stops after the line for end
NoWrapAtUpperBoundary ==
    [][(IterRun /\ pc = "loop" /\ argv[2] = <<255, 255, 255, 255>>)
          => ~(cur = Max32 /\ cur' = Zero32)]_vars

\* C3: when both arguments parse and start is greater than end, ip_iter
\* ends with a non-zero status and prints no line
RangeRejected ==
    (IterRun /\ TextLess(argv[2], argv[1]) /\ pc # "start") =>
        pc = "done" /\ status > 0 /\ err = "range" /\ out = <<>>

\* ip_iter 10.0.0.5 10.0.0.3 has been rejected
RangeRejectedSeen ==
    /\ prog = "ip_iter" /\ argc = 3
    /\ argv = << <<10, 0, 0, 5>>, <<10, 0, 0, 3>> >>
    /\ pc = "done" /\ err = "range"

Example1024 ==
    /\ prog = "ip_sub" /\ argc = 4
    /\ argv = << <<10, 0, 0, 1>>, Text(24), Text(1) >>

\* C5 as stated: ip_sub 10.0.0.1 24 1 ends with a non-zero status, as
\* misaligned, and prints no line
MisalignedExample ==
    (Example1024 /\ pc = "done") =>
        status > 0 /\ err = "subnet" /\ out = <<>>

\* C5: ip_sub 10.0.0.1 24 1 passes the boundary-bit check (bit 8 of
\* 10.0.0.1 is clear), ends with status 0 and prints the one line
\* 10.0.0.1 10.0.0.2 10.0.0.3
AcceptedExample ==
    (Example1024 /\ pc = "done") =>
        /\ status = 0 /\ err = "none"
        /\ out = << << <<10, 0, 0, 1>>, <<10, 0, 0, 2>>, <<10, 0, 0, 3>> >> >>

\* ip_sub 10.0.0.1 24 1 has ended
ExampleEnded == Example1024 /\ pc = "done"

\* C6: with a valid base and 8 <= bits < 32, ip_sub fails as misaligned,
\* with a non-zero status and no line, exactly when the bit at position
\* 32-bits of the base is set; the bits below it play no part
MisalignedIffBoundaryBit ==
    (SubRun /\ atoi(argv[2]) \in 8..31 /\ pc # "start") =>
        /\ err = "subnet" <=> BoundaryBit(argv[1], 32 - atoi(argv[2])) = 1
        /\ err = "subnet" => pc = "done" /\ status > 0 /\ out = <<>>
        /\ err # "subnet" => err \in {"none", "trap"}

\* a base with only its boundary bit set in the host part was rejected,
\* being 10.0.1.0 at 24 bits
MisalignedSeen ==
    /\ SubRun /\ argv[1] = <<10, 0, 1, 0>> /\ atoi(argv[2]) = 24
    /\ pc = "done" /\ err = "subnet"

\* C7: with a valid base, ip_sub fails for a bad prefix length, with a
\* non-zero status and no line, for every bits < 8 and every bits >= 32,
\* and for no bits in 8..31
BadBitsIffOutOfRange ==
    (SubRun /\ pc # "start") =>
        /\ err = "bits" <=> (atoi(argv[2]) < 8 \/ atoi(argv[2]) >= 32)
        /\ err = "bits" => pc = "done" /\ status > 0 /\ out = <<>>

\* a prefix length of 32 was rejected
BadBitsSeen ==
    SubRun /\ atoi(argv[2]) = 32 /\ pc = "done" /\ err = "bits"

ShiftInRange ==
    \A s \in shifts :
        /\ s = 32 - bits
        /\ bits >= 8 /\ bits < 32
        /\ s >= 1 /\ s <= 24
        /\ 2 ^ s >= 2 /\ 2 ^ s <= 2 ^ 24

\* the shift has been evaluated by the alignment check and by a loop step
ShiftSeen == shifts # {} /\ pc = "loop" /\ i > 0

====
